---------------------------- MODULE Spec2Model ----------------------------
(* A state-machine model of two access layers of the payments platform:   *)
(*   - app/payin/repository/dispute_repo.py : DisputeRepository            *)
(*   - app/payout/api/transfer/v0/api.py    : the v0 transfer resource API *)
EXTENDS Integers, Sequences, FiniteSets, TLC

VARIABLES
    stripe_disputes,  \* the stripe_disputes table: a sequence of rows, in store order
    d_op,             \* name of the last DisputeRepository operation that ran
    d_args,           \* its input model(s)
    d_target,         \* the connection target its statement was issued to
    d_result,         \* what it returned
    calls,            \* concurrent update_dispute_details coroutines
    transfers,               \* the transfer table, in store order
    transfer_id_seq,         \* the next id the transfer table assigns
    stripe_transfers,        \* the stripe_transfer table, in store order
    stripe_transfer_id_seq,  \* the next id the stripe_transfer table assigns
    h_op,             \* operation_id of the last request the transfer API handled
    h_request,        \* its path/query parameters and body
    h_repo,           \* the repository call the handler made
    h_response        \* the HTTP outcome: status code and body

dispute_vars == <<stripe_disputes, d_op, d_args, d_target, d_result, calls>>

payout_vars ==
    <<transfers, transfer_id_seq, stripe_transfers, stripe_transfer_id_seq,
      h_op, h_request, h_repo, h_response>>

vars == <<dispute_vars, payout_vars>>

-----------------------------------------------------------------------------
(* Bounds of the model.                                                    *)

MaxRows == 2

MaxTime == 1

MaxListLen == 2

MaxCallers == 2

MaxTransfers == 2

MaxStripeTransfers == 2

-----------------------------------------------------------------------------
(* Python values.  Optional[T] is None or a T: None is the empty tuple and *)
(* a present value v is the one-element tuple <<v>>.                        *)

None == <<>>

Some(v) == <<v>>

Times == 0 .. MaxTime

Cards == {11, 22}

Reasons == {"fraudulent", "general"}

\* External (processor-side) dispute ids, by internal row id.
DisputeIds == <<"dp_1", "dp_2", "dp_3", "dp_4", "dp_5">>

\* Decimal strings, by the integer they denote.
Numerals == <<"1", "2", "3", "4", "5">>

\* All sequences over S of length at most n.
SeqsUpTo(S, n) == UNION {[1 .. k -> S] : k \in 0 .. n}

\* x IN (list): SQL membership in a bound list; an empty list matches nothing.
in_(x, list) == \E k \in 1 .. Len(list) : list[k] = x

-----------------------------------------------------------------------------
(* The stripe_disputes table and its entity.                               *)

StripeDisputeDbEntityFields ==
    {"id", "stripe_dispute_id", "disputed_at", "amount", "fee", "net",
     "currency", "charged_at", "reason", "status", "evidence_due_by",
     "evidence_submitted_at", "updated_at", "stripe_card_id", "stripe_charge_id"}

\* A row as the processor mirror wrote it: no evidence submitted yet.
DisputeRow(i, card, reason, t) ==
    [id |-> i,
     stripe_dispute_id |-> DisputeIds[i],
     disputed_at |-> t,
     amount |-> 1000 * i,
     fee |-> 1500,
     net |-> 0 - (1000 * i + 1500),
     currency |-> Some("usd"),
     charged_at |-> 0,
     reason |-> reason,
     status |-> "needs_response",
     evidence_due_by |-> MaxTime + 1,
     evidence_submitted_at |-> None,
     updated_at |-> None,
     stripe_card_id |-> card,
     stripe_charge_id |-> 100 + i]

\* Every table of at most MaxRows rows; the internal id is the insertion index.
Tables ==
    UNION {{[i \in 1 .. n |-> DisputeRow(i, c[i], r[i], t[i])] :
               c \in [1 .. n -> Cards], r \in [1 .. n -> Reasons], t \in [1 .. n -> Times]} :
           n \in 0 .. MaxRows}

\* One table per size, rows differing in every varied column.
FixtureTables ==
    {[i \in 1 .. n |-> DisputeRow(i,
                                  IF i % 2 = 1 THEN 11 ELSE 22,
                                  IF i % 2 = 1 THEN "fraudulent" ELSE "general",
                                  i % (MaxTime + 1))] : n \in 0 .. MaxRows}

\* StripeDisputeDbEntity.from_row: one entity field per column of the same name.
from_row(row) == [f \in StripeDisputeDbEntityFields |-> row[f]]

\* fetch_one: the first row of the statement's result, or None.
fetch_one(rows) == IF Len(rows) = 0 THEN None ELSE Some(rows[1])

\* fetch_all: every row of the statement's result, in store order.
fetch_all(rows) == rows

\* A read that is issued to the write connection.
replica_on_master == "master"

\* main_database.replica() / main_database.master()
replica == "replica"

master == "master"


-----------------------------------------------------------------------------
(* DisputeIdType and the comparisons the statements make.                  *)

\* DisputeIdType.STRIPE_DISPUTE_ID: a member of a str-valued enum.  An object
\* of the model carries its text and whether it is that enum's member object.
STRIPE_DISPUTE_ID == [value |-> "stripe_dispute_id", member |-> TRUE]

\* Every object a caller can place in dispute_id_type (Optional[str]): None,
\* an enum member, or a plain str with any text.
IdTypeValues ==
    {None} \cup {Some([value |-> v, member |-> m]) :
                    v \in {"stripe_dispute_id", "dd_stripe_dispute_id"}, m \in BOOLEAN}

\* Python `a is b`: the same object.  An enum member is a singleton; a plain
\* str is never the member object, whatever its text.
is_(a, b) == a.member /\ b.member /\ a.value = b.value

\* stripe_disputes.id == <str>: the integer column equals the number the text
\* denotes; a text that denotes no number equals no id.
id_column_equals(id, text) == \E n \in 1 .. Len(Numerals) : Numerals[n] = text /\ n = id

\* The WHERE clause get_dispute_by_dispute_id builds.
get_dispute_where(dispute_input, row) ==
    IF \/ dispute_input.dispute_id_type = None
       \/ is_(dispute_input.dispute_id_type[1], STRIPE_DISPUTE_ID)
    THEN row.stripe_dispute_id = dispute_input.stripe_dispute_id
    ELSE id_column_equals(row.id, dispute_input.stripe_dispute_id)

\* Matches the first listed card id only.
payer_where_first(input, row) ==
    Len(input.stripe_card_ids) > 0 /\ row.stripe_card_id = input.stripe_card_ids[1]

\* The WHERE clause of list_disputes_by_payer_id.
payer_where(input, row) == in_(row.stripe_card_id, input.stripe_card_ids)

\* The WHERE clause of list_disputes_by_payment_method_id.
payment_method_where(input, row) == row.stripe_card_id = input.stripe_card_id

\* The time bound taken inclusively.
consumer_where_inclusive(cumulative_amount_input, row) ==
    /\ in_(row.stripe_card_id, cumulative_amount_input.card_ids)
    /\ in_(row.reason, cumulative_amount_input.reasons)
    /\ row.disputed_at >= cumulative_amount_input.start_time

\* The WHERE clause of get_disputes_by_dd_consumer_id.
consumer_where(cumulative_amount_input, row) ==
    /\ in_(row.stripe_card_id, cumulative_amount_input.card_ids)
    /\ in_(row.reason, cumulative_amount_input.reasons)
    /\ row.disputed_at > cumulative_amount_input.start_time

\* The WHERE clause of get_disputes_by_dd_stripe_card_id.
stripe_card_where(cumulative_count_input, row) ==
    /\ row.stripe_card_id = cumulative_count_input.stripe_card_id
    /\ in_(row.reason, cumulative_count_input.reasons)
    /\ row.disputed_at > cumulative_count_input.start_time

\* An UPDATE whose WHERE clause was left out.
update_where_missing(request_where, row) == TRUE

\* The WHERE clause of update_dispute_details.
update_where(request_where, row) == row.stripe_dispute_id = request_where.id

\* Only one of the two columns is assigned.
update_values_one_column(request_set) ==
    [evidence_submitted_at |-> request_set.evidence_submitted_at]

\* request_set.dict(): the columns the UPDATE assigns, with their values.
update_values(request_set) ==
    [evidence_submitted_at |-> request_set.evidence_submitted_at,
     updated_at |-> request_set.updated_at]

\* table.select().where(...): the rows the WHERE clause holds for, in store
\* order.  `where` gives the clause's value for each row of the table.
select(table, where) ==
    LET marked == [i \in 1 .. Len(table) |-> <<where[i], table[i]>>]
        kept == SelectSeq(marked, LAMBDA p : p[1])
    IN  [k \in 1 .. Len(kept) |-> kept[k][2]]

\* table.update().where(...).values(...): the table after the statement.
update(table, where, values) ==
    [i \in 1 .. Len(table) |->
        IF where[i]
        THEN [f \in DOMAIN table[i] |->
                 IF f \in DOMAIN values THEN Some(values[f]) ELSE table[i][f]]
        ELSE table[i]]

\* .returning(*columns): the rows the UPDATE wrote, as they are after it.
returning(table_after, where) == select(table_after, where)

\* The value of a WHERE clause for each row of the stripe_disputes table.
get_dispute_stmt(dispute_input) ==
    [i \in 1 .. Len(stripe_disputes) |-> get_dispute_where(dispute_input, stripe_disputes[i])]

payer_stmt(input) ==
    [i \in 1 .. Len(stripe_disputes) |-> payer_where(input, stripe_disputes[i])]

payment_method_stmt(input) ==
    [i \in 1 .. Len(stripe_disputes) |-> payment_method_where(input, stripe_disputes[i])]

consumer_stmt(cumulative_amount_input) ==
    [i \in 1 .. Len(stripe_disputes) |->
        consumer_where(cumulative_amount_input, stripe_disputes[i])]

stripe_card_stmt(cumulative_count_input) ==
    [i \in 1 .. Len(stripe_disputes) |->
        stripe_card_where(cumulative_count_input, stripe_disputes[i])]

update_stmt(request_where) ==
    [i \in 1 .. Len(stripe_disputes) |-> update_where(request_where, stripe_disputes[i])]

-----------------------------------------------------------------------------
(* Inputs.                                                                  *)

\* Ids a caller may ask for: every external id and numeral a table of
\* MaxRows rows can hold, and one of each that it cannot.
AskedIds ==
    {DisputeIds[i] : i \in 1 .. MaxRows + 1} \cup {Numerals[i] : i \in 1 .. MaxRows + 1}

GetStripeDisputeByIdInputs ==
    [stripe_dispute_id : AskedIds, dispute_id_type : IdTypeValues]

CardIdLists == SeqsUpTo(Cards \cup {33}, MaxListLen)

ReasonLists == {<<>>, <<"fraudulent">>, <<"general">>, <<"general", "fraudulent">>}

GetAllStripeDisputesByPayerIdInputs == [stripe_card_ids : CardIdLists]

GetAllStripeDisputesByPaymentMethodIdInputs == [stripe_card_id : Cards \cup {33}]

GetCumulativeAmountInputs ==
    [card_ids : CardIdLists, start_time : Times, reasons : ReasonLists]

GetCumulativeCountInputs ==
    [stripe_card_id : Cards, reasons : ReasonLists, start_time : Times]

UpdateStripeDisputeWhereInputs == [id : {DisputeIds[i] : i \in 1 .. MaxRows + 1}]

UpdateStripeDisputeSetInputs == [evidence_submitted_at : Times, updated_at : Times]

-----------------------------------------------------------------------------
(* DisputeRepository: one action per method.  Each method builds one       *)
(* statement, awaits it on one connection target and converts the rows.    *)

get_dispute_by_dispute_id(dispute_input) ==
    LET stmt == select(stripe_disputes, get_dispute_stmt(dispute_input))
        row == fetch_one(stmt)
    IN  /\ d_op' = "get_dispute_by_dispute_id"
        /\ d_args' = dispute_input
        /\ d_target' = replica
        /\ d_result' = IF row # None THEN Some(from_row(row[1])) ELSE None
        /\ UNCHANGED <<stripe_disputes, calls>>

update_dispute_details(request_set, request_where) ==
    LET after == update(stripe_disputes, update_stmt(request_where),
                        update_values(request_set))
        row == fetch_one(returning(after, update_stmt(request_where)))
    IN  /\ d_op' = "update_dispute_details"
        /\ d_args' = [request_set |-> request_set, request_where |-> request_where]
        /\ d_target' = master
        /\ stripe_disputes' = after
        /\ d_result' = IF row # None THEN Some(from_row(row[1])) ELSE None
        /\ UNCHANGED calls

list_disputes_by_payer_id(input) ==
    LET rows == fetch_all(select(stripe_disputes, payer_stmt(input)))
    IN  /\ d_op' = "list_disputes_by_payer_id"
        /\ d_args' = input
        /\ d_target' = replica
        /\ d_result' = [k \in 1 .. Len(rows) |-> from_row(rows[k])]
        /\ UNCHANGED <<stripe_disputes, calls>>

list_disputes_by_payment_method_id(input) ==
    LET rows == fetch_all(select(stripe_disputes, payment_method_stmt(input)))
    IN  /\ d_op' = "list_disputes_by_payment_method_id"
        /\ d_args' = input
        /\ d_target' = replica
        /\ d_result' = [k \in 1 .. Len(rows) |-> from_row(rows[k])]
        /\ UNCHANGED <<stripe_disputes, calls>>

get_disputes_by_dd_consumer_id(cumulative_amount_input) ==
    LET stripe_dispute_rows ==
            fetch_all(select(stripe_disputes, consumer_stmt(cumulative_amount_input)))
    IN  /\ d_op' = "get_disputes_by_dd_consumer_id"
        /\ d_args' = cumulative_amount_input
        /\ d_target' = replica
        /\ d_result' = [k \in 1 .. Len(stripe_dispute_rows) |->
                           from_row(stripe_dispute_rows[k])]
        /\ UNCHANGED <<stripe_disputes, calls>>

get_disputes_by_dd_stripe_card_id(cumulative_count_input) ==
    LET rows == fetch_all(select(stripe_disputes, stripe_card_stmt(cumulative_count_input)))
    IN  /\ d_op' = "get_disputes_by_dd_stripe_card_id"
        /\ d_args' = cumulative_count_input
        /\ d_target' = replica
        /\ d_result' = [k \in 1 .. Len(rows) |-> from_row(rows[k])]
        /\ UNCHANGED <<stripe_disputes, calls>>

-----------------------------------------------------------------------------
(* Specifications of the dispute repository.                               *)

NoCalls == [c \in 1 .. MaxCallers |-> [pc |-> "idle"]]

\* The payout store as deployed: empty tables, no request handled yet.
PayoutIdle ==
    /\ transfers = <<>>
    /\ transfer_id_seq = 1
    /\ stripe_transfers = <<>>
    /\ stripe_transfer_id_seq = 1
    /\ h_op = "none"
    /\ h_request = None
    /\ h_repo = None
    /\ h_response = None

DisputeIdle ==
    /\ d_op = "none"
    /\ d_args = None
    /\ d_target = "none"
    /\ d_result = None
    /\ calls = NoCalls

\* A sequential caller awaits each method before it calls the next one.
Ready == d_op = "none"

\* The awaited method has returned; its result is the caller's.
Return ==
    /\ d_op # "none"
    /\ d_op' = "none"
    /\ d_args' = None
    /\ d_target' = "none"
    /\ d_result' = None
    /\ UNCHANGED <<stripe_disputes, calls>>
    /\ UNCHANGED payout_vars

GetDispute ==
    /\ Ready
    /\ \E i \in GetStripeDisputeByIdInputs : get_dispute_by_dispute_id(i)
    /\ UNCHANGED payout_vars

ListByPayer ==
    /\ Ready
    /\ \E i \in GetAllStripeDisputesByPayerIdInputs : list_disputes_by_payer_id(i)
    /\ UNCHANGED payout_vars

ListByPaymentMethod ==
    /\ Ready
    /\ \E i \in GetAllStripeDisputesByPaymentMethodIdInputs :
          list_disputes_by_payment_method_id(i)
    /\ UNCHANGED payout_vars

GetByConsumer ==
    /\ Ready
    /\ \E i \in GetCumulativeAmountInputs : get_disputes_by_dd_consumer_id(i)
    /\ UNCHANGED payout_vars

GetByStripeCard ==
    /\ Ready
    /\ \E i \in GetCumulativeCountInputs : get_disputes_by_dd_stripe_card_id(i)
    /\ UNCHANGED payout_vars

UpdateDetails ==
    /\ Ready
    /\ \E s \in UpdateStripeDisputeSetInputs, w \in UpdateStripeDisputeWhereInputs :
          update_dispute_details(s, w)
    /\ UNCHANGED payout_vars

\* The read methods over every table the store may hold.
QueryInit == stripe_disputes \in Tables /\ DisputeIdle /\ PayoutIdle

QueryNext ==
    \/ GetDispute
    \/ ListByPayer
    \/ ListByPaymentMethod
    \/ GetByConsumer
    \/ GetByStripeCard
    \/ Return

QuerySpec == QueryInit /\ [][QueryNext]_vars

\* Every method of the repository, called one at a time.
DisputeInit == stripe_disputes \in FixtureTables /\ DisputeIdle /\ PayoutIdle

DisputeNext ==
    \/ GetDispute
    \/ UpdateDetails
    \/ ListByPayer
    \/ ListByPaymentMethod
    \/ GetByConsumer
    \/ GetByStripeCard
    \/ Return

DisputeSpec == DisputeInit /\ [][DisputeNext]_vars

-----------------------------------------------------------------------------
(* Concurrent callers of update_dispute_details.  The coroutine builds its *)
(* statement, then awaits fetch_one on the master connection; the store    *)
(* runs the single UPDATE ... RETURNING statement as one step.             *)

Callers == 1 .. MaxCallers

\* Up to the await: the statement is built from the two inputs and submitted.
update_dispute_details_call(c, request_set, request_where) ==
    /\ calls[c].pc = "idle"
    /\ calls' = [calls EXCEPT ![c] = [pc |-> "awaiting",
                                      request_set |-> request_set,
                                      request_where |-> request_where]]
    /\ UNCHANGED <<stripe_disputes, d_op, d_args, d_target, d_result>>

\* The store runs the statement; fetch_one resumes the coroutine, which returns.
update_dispute_details_resume(c) ==
    /\ calls[c].pc = "awaiting"
    /\ LET request_set == calls[c].request_set
           request_where == calls[c].request_where
           after == update(stripe_disputes, update_stmt(request_where),
                           update_values(request_set))
           row == fetch_one(returning(after, update_stmt(request_where)))
       IN  /\ stripe_disputes' = after
           /\ calls' = [calls EXCEPT ![c] =
                           [pc |-> "returned",
                            request_set |-> request_set,
                            request_where |-> request_where,
                            result |-> IF row # None THEN Some(from_row(row[1])) ELSE None]]
    /\ UNCHANGED <<d_op, d_args, d_target, d_result>>

ConcurrentInit ==
    /\ stripe_disputes \in {t \in FixtureTables : Len(t) > 0}
    /\ DisputeIdle
    /\ PayoutIdle

CallUpdate ==
    /\ \E c \in Callers, s \in UpdateStripeDisputeSetInputs,
          w \in [id : {DisputeIds[1], DisputeIds[MaxRows + 1]}] :
           update_dispute_details_call(c, s, w)
    /\ UNCHANGED payout_vars

ResumeUpdate ==
    /\ \E c \in Callers : update_dispute_details_resume(c)
    /\ UNCHANGED payout_vars

ConcurrentNext ==
    \/ CallUpdate
    \/ ResumeUpdate

ConcurrentSpec == ConcurrentInit /\ [][ConcurrentNext]_vars

-----------------------------------------------------------------------------
(* Transfer resource API, v0: wire models.                                 *)
(* A model instance is its field values together with the set of fields    *)
(* that were given when it was built; a field that was not given holds its *)
(* default, None.  Every value is None or Some(v).                          *)

HTTP_200_OK == 200

HTTP_201_CREATED == 201

HTTP_404_NOT_FOUND == 404

StripeTransferFields ==
    {"id", "created_at", "transfer_id", "stripe_status", "stripe_id",
     "stripe_request_id", "stripe_failure_code", "stripe_account_id",
     "stripe_account_type", "country_shortname", "bank_last_four", "bank_name",
     "submission_error_code", "submission_error_type", "submission_status",
     "submitted_at"}

StripeTransferCreateFields ==
    {"transfer_id", "stripe_status", "stripe_id", "stripe_request_id",
     "stripe_failure_code", "stripe_account_id", "stripe_account_type",
     "country_shortname", "bank_last_four", "bank_name", "submission_error_code",
     "submission_error_type", "submission_status", "submitted_at"}

StripeTransferUpdateFields ==
    {"stripe_id", "stripe_request_id", "stripe_failure_code", "stripe_account_id",
     "stripe_account_type", "country_shortname", "bank_last_four", "bank_name",
     "submission_error_code", "submission_error_type", "submission_status",
     "submitted_at", "stripe_status", "transfer_id"}

\* Model(**kwargs): the given fields are set, the others hold the default.
Model(fields, kwargs) ==
    [fields_set |-> DOMAIN kwargs \cap fields,
     values |-> [f \in fields |-> IF f \in DOMAIN kwargs THEN kwargs[f] ELSE None]]

\* model.dict(): every field, set or defaulted.
dict_all(model) == model.values

\* model.dict(skip_defaults=True): only the fields that were set.
dict_skip_defaults(model) == [f \in model.fields_set |-> model.values[f]]

\* StripeTransfer(**internal.dict()): the wire response, field by field.
StripeTransfer(internal) == [f \in StripeTransferFields |-> internal[f]]

\* The body the framework sends for a raised PaymentException.
raise_(exception) ==
    [status_code |-> exception.http_status_code,
     body |-> [error_code |-> exception.error_code,
               error_message |-> exception.error_message,
               retryable |-> exception.retryable]]

\* A transfer's own error reported with the stripe transfer's code.
transfer_not_found_wrong_code ==
    [http_status_code |-> HTTP_404_NOT_FOUND,
     error_code |-> "stripe_transfer_not_found",
     error_message |-> "transfer not found",
     retryable |-> FALSE]

_transfer_not_found ==
    [http_status_code |-> HTTP_404_NOT_FOUND,
     error_code |-> "transfer_not_found",
     error_message |-> "transfer not found",
     retryable |-> FALSE]

_stripe_transfer_not_found ==
    [http_status_code |-> HTTP_404_NOT_FOUND,
     error_code |-> "stripe_transfer_not_found",
     error_message |-> "stripe transfer not found",
     retryable |-> FALSE]

\* Acknowledgement(): the fixed body of the delete endpoint.
Acknowledgement == [acknowledged |-> TRUE]

-----------------------------------------------------------------------------
(* The repository behind the API (app.payout.service.TransferRepository),  *)
(* as the resource contract describes it: one statement per call.          *)

\* Two mutable columns stand for the transfer table's payload columns.
TransferFields == {"id", "created_at", "amount", "status"}

TransferCreateFields == {"amount", "status"}

TransferUpdateFields == {"amount", "status"}

\* INSERT ... RETURNING: the id and created_at are the store's, every other
\* column is the given value or NULL.
insert_row(columns, id, data) ==
    [f \in columns |->
        IF f = "id" THEN id
        ELSE IF f = "created_at" THEN id
        ELSE data.values[f]]

\* SELECT ... WHERE id = :id, fetch_one.
select_by_id(table, id) ==
    fetch_one(SelectSeq(table, LAMBDA r : r.id = id))

\* UPDATE ... SET <the fields that were set> WHERE id = :id.
update_by_id(table, id, data) ==
    [i \in 1 .. Len(table) |->
        IF table[i].id = id
        THEN [f \in DOMAIN table[i] |->
                 IF f \in data.fields_set THEN data.values[f] ELSE table[i][f]]
        ELSE table[i]]

\* SELECT ... WHERE stripe_id = :stripe_id, fetch_one.
select_by_stripe_id(table, stripe_id) ==
    fetch_one(SelectSeq(table, LAMBDA r : r.stripe_id = Some(stripe_id)))

\* SELECT ... WHERE transfer_id = :transfer_id, fetch_all.
select_by_transfer_id(table, transfer_id) ==
    fetch_all(SelectSeq(table, LAMBDA r : r.transfer_id = Some(transfer_id)))

\* DELETE ... WHERE stripe_id = :stripe_id.
delete_by_stripe_id(table, stripe_id) ==
    SelectSeq(table, LAMBDA r : r.stripe_id # Some(stripe_id))

-----------------------------------------------------------------------------
(* Requests.                                                                *)

\* The JSON object that gives the keys K of `given`, parsed into a model.
Parsed(fields, K, given) == Model(fields, [f \in K |-> given[f]])

StripeIds == {"tr_1", "tr_2"}

TransferCreateBodies ==
    {Parsed(TransferCreateFields, K, [amount |-> Some(100), status |-> Some("new")]) :
        K \in {{"amount"}, {"amount", "status"}}}

TransferUpdateBodies ==
    {Parsed(TransferUpdateFields, K, [amount |-> Some(200), status |-> st]) :
        K \in SUBSET {"amount", "status"}, st \in {None, Some("paid")}}

StripeTransferCreateBodies ==
    {Parsed(StripeTransferCreateFields, K,
            [transfer_id |-> Some(t), stripe_status |-> Some("pending"), stripe_id |-> x]) :
        K \in {{"transfer_id", "stripe_status"}, {"transfer_id", "stripe_status", "stripe_id"}},
        t \in {1, 2},
        x \in {None} \cup {Some(y) : y \in StripeIds}}

StripeTransferUpdateBodies ==
    {Parsed(StripeTransferUpdateFields, K, [stripe_status |-> Some(st), stripe_id |-> x]) :
        K \in SUBSET {"stripe_status", "stripe_id"},
        st \in {"pending", "paid"},
        x \in {None} \cup {Some(y) : y \in StripeIds}}

-----------------------------------------------------------------------------
(* The handlers, one action per route.                                     *)

Handled(op, request, repo, response) ==
    /\ h_op' = op
    /\ h_request' = request
    /\ h_repo' = repo
    /\ h_response' = response

create_transfer(data) ==
    LET row == insert_row(TransferFields, transfer_id_seq, data)
    IN  /\ transfers' = Append(transfers, row)
        /\ transfer_id_seq' = transfer_id_seq + 1
        /\ Handled("CreateTransfer", [data |-> data],
                   [call |-> "create_transfer", data |-> data],
                   [status_code |-> HTTP_201_CREATED, body |-> row])
        /\ UNCHANGED <<stripe_transfers, stripe_transfer_id_seq>>

get_transfer_by_id(transfer_id) ==
    LET transfer == select_by_id(transfers, transfer_id)
    IN  /\ Handled("GetTransferById", [transfer_id |-> transfer_id],
                   [call |-> "get_transfer_by_id", transfer_id |-> transfer_id],
                   IF transfer = None
                   THEN raise_(_transfer_not_found)
                   ELSE [status_code |-> HTTP_200_OK, body |-> transfer[1]])
        /\ UNCHANGED <<transfers, transfer_id_seq, stripe_transfers, stripe_transfer_id_seq>>

update_transfer_by_id(transfer_id, data) ==
    LET after == update_by_id(transfers, transfer_id, data)
        updated_transfer == select_by_id(after, transfer_id)
    IN  /\ transfers' = after
        /\ Handled("UpdateTransferById", [transfer_id |-> transfer_id, data |-> data],
                   [call |-> "update_transfer_by_id", transfer_id |-> transfer_id,
                    data |-> data],
                   IF updated_transfer = None
                   THEN raise_(_transfer_not_found)
                   ELSE [status_code |-> HTTP_200_OK, body |-> updated_transfer[1]])
        /\ UNCHANGED <<transfer_id_seq, stripe_transfers, stripe_transfer_id_seq>>

create_stripe_transfer(data) ==
    LET internal_request == Model(StripeTransferCreateFields, dict_skip_defaults(data))
        internal_stripe_transfer ==
            insert_row(StripeTransferFields, stripe_transfer_id_seq, internal_request)
    IN  /\ stripe_transfers' = Append(stripe_transfers, internal_stripe_transfer)
        /\ stripe_transfer_id_seq' = stripe_transfer_id_seq + 1
        /\ Handled("CreateStripeTransfer", [data |-> data],
                   [call |-> "create_stripe_transfer", data |-> internal_request],
                   [status_code |-> HTTP_201_CREATED,
                    body |-> StripeTransfer(internal_stripe_transfer)])
        /\ UNCHANGED <<transfers, transfer_id_seq>>

\* Absence answered like the by-id lookup does.
get_stripe_transfer_by_stripe_id_or_404(stripe_id) ==
    LET internal_stripe_transfer == select_by_stripe_id(stripe_transfers, stripe_id)
    IN  /\ Handled("GetStripeTransferByStripeId", [stripe_id |-> stripe_id],
                   [call |-> "get_stripe_transfer_by_stripe_id", stripe_id |-> stripe_id],
                   IF internal_stripe_transfer # None
                   THEN [status_code |-> HTTP_200_OK,
                         body |-> Some(StripeTransfer(internal_stripe_transfer[1]))]
                   ELSE raise_(_stripe_transfer_not_found))
        /\ UNCHANGED <<transfers, transfer_id_seq, stripe_transfers, stripe_transfer_id_seq>>

get_stripe_transfer_by_stripe_id(stripe_id) ==
    LET internal_stripe_transfer == select_by_stripe_id(stripe_transfers, stripe_id)
    IN  /\ Handled("GetStripeTransferByStripeId", [stripe_id |-> stripe_id],
                   [call |-> "get_stripe_transfer_by_stripe_id", stripe_id |-> stripe_id],
                   [status_code |-> HTTP_200_OK,
                    body |-> IF internal_stripe_transfer # None
                             THEN Some(StripeTransfer(internal_stripe_transfer[1]))
                             ELSE None])
        /\ UNCHANGED <<transfers, transfer_id_seq, stripe_transfers, stripe_transfer_id_seq>>

get_stripe_transfer_by_transfer_id(transfer_id) ==
    LET internal_stripe_transfers == select_by_transfer_id(stripe_transfers, transfer_id)
    IN  /\ Handled("GetStripeTransfersByTransferId", [transfer_id |-> transfer_id],
                   [call |-> "get_stripe_transfers_by_transfer_id",
                    transfer_id |-> transfer_id],
                   [status_code |-> HTTP_200_OK,
                    body |-> [k \in 1 .. Len(internal_stripe_transfers) |->
                                 StripeTransfer(internal_stripe_transfers[k])]])
        /\ UNCHANGED <<transfers, transfer_id_seq, stripe_transfers, stripe_transfer_id_seq>>

get_stripe_transfer_by_id(stripe_transfer_id) ==
    LET internal_stripe_transfer == select_by_id(stripe_transfers, stripe_transfer_id)
    IN  /\ Handled("GetStripeTransferById", [stripe_transfer_id |-> stripe_transfer_id],
                   [call |-> "get_stripe_transfer_by_id",
                    stripe_transfer_id |-> stripe_transfer_id],
                   IF internal_stripe_transfer = None
                   THEN raise_(_stripe_transfer_not_found)
                   ELSE [status_code |-> HTTP_200_OK,
                         body |-> StripeTransfer(internal_stripe_transfer[1])])
        /\ UNCHANGED <<transfers, transfer_id_seq, stripe_transfers, stripe_transfer_id_seq>>

update_stripe_transfer_by_id(stripe_transfer_id, body) ==
    LET internal_request == Model(StripeTransferUpdateFields, dict_skip_defaults(body))
        after == update_by_id(stripe_transfers, stripe_transfer_id, internal_request)
        internal_stripe_transfer == select_by_id(after, stripe_transfer_id)
    IN  /\ stripe_transfers' = after
        /\ Handled("UpdateStripeTransferById",
                   [stripe_transfer_id |-> stripe_transfer_id, body |-> body],
                   [call |-> "update_stripe_transfer_by_id",
                    stripe_transfer_id |-> stripe_transfer_id, data |-> internal_request],
                   IF internal_stripe_transfer = None
                   THEN raise_(_stripe_transfer_not_found)
                   ELSE [status_code |-> HTTP_200_OK,
                         body |-> StripeTransfer(internal_stripe_transfer[1])])
        /\ UNCHANGED <<transfers, transfer_id_seq, stripe_transfer_id_seq>>

\* A delete that reports a stripe_id it did not find.
delete_stripe_transfer_by_stripe_id_checked(stripe_id) ==
    /\ stripe_transfers' = delete_by_stripe_id(stripe_transfers, stripe_id)
    /\ Handled("DeleteStripeTransferByStripeId", [stripe_id |-> stripe_id],
               [call |-> "delete_stripe_transfer_by_stripe_id", stripe_id |-> stripe_id],
               IF select_by_stripe_id(stripe_transfers, stripe_id) = None
               THEN raise_(_stripe_transfer_not_found)
               ELSE [status_code |-> HTTP_200_OK, body |-> Acknowledgement])
    /\ UNCHANGED <<transfers, transfer_id_seq, stripe_transfer_id_seq>>

delete_stripe_transfer_by_stripe_id(stripe_id) ==
    /\ stripe_transfers' = delete_by_stripe_id(stripe_transfers, stripe_id)
    /\ Handled("DeleteStripeTransferByStripeId", [stripe_id |-> stripe_id],
               [call |-> "delete_stripe_transfer_by_stripe_id", stripe_id |-> stripe_id],
               [status_code |-> HTTP_200_OK, body |-> Acknowledgement])
    /\ UNCHANGED <<transfers, transfer_id_seq, stripe_transfer_id_seq>>

-----------------------------------------------------------------------------
(* Specifications of the transfer API.  Requests are handled one at a time *)
(* here: no handler holds state across its single repository call.         *)

Idle == h_op = "none"

\* The response has been sent.
Respond ==
    /\ h_op # "none"
    /\ h_op' = "none"
    /\ h_request' = None
    /\ h_repo' = None
    /\ h_response' = None
    /\ UNCHANGED <<transfers, transfer_id_seq, stripe_transfers, stripe_transfer_id_seq>>
    /\ UNCHANGED dispute_vars

CreateTransfer ==
    /\ Idle
    /\ transfer_id_seq <= MaxTransfers
    /\ \E data \in TransferCreateBodies : create_transfer(data)
    /\ UNCHANGED dispute_vars

GetTransferById ==
    /\ Idle
    /\ \E id \in 1 .. MaxTransfers + 1 : get_transfer_by_id(id)
    /\ UNCHANGED dispute_vars

UpdateTransferById ==
    /\ Idle
    /\ \E id \in 1 .. MaxTransfers + 1, data \in TransferUpdateBodies :
          update_transfer_by_id(id, data)
    /\ UNCHANGED dispute_vars

CreateStripeTransfer ==
    /\ Idle
    /\ stripe_transfer_id_seq <= MaxStripeTransfers
    /\ \E data \in StripeTransferCreateBodies : create_stripe_transfer(data)
    /\ UNCHANGED dispute_vars

GetStripeTransferByStripeId ==
    /\ Idle
    /\ \E x \in StripeIds \cup {"tr_unknown"} : get_stripe_transfer_by_stripe_id(x)
    /\ UNCHANGED dispute_vars

GetStripeTransfersByTransferId ==
    /\ Idle
    /\ \E id \in {1, 2, 3} : get_stripe_transfer_by_transfer_id(id)
    /\ UNCHANGED dispute_vars

GetStripeTransferById ==
    /\ Idle
    /\ \E id \in 1 .. MaxStripeTransfers + 1 : get_stripe_transfer_by_id(id)
    /\ UNCHANGED dispute_vars

UpdateStripeTransferById ==
    /\ Idle
    /\ \E id \in 1 .. MaxStripeTransfers + 1, body \in StripeTransferUpdateBodies :
          update_stripe_transfer_by_id(id, body)
    /\ UNCHANGED dispute_vars

DeleteStripeTransferByStripeId ==
    /\ Idle
    /\ \E x \in StripeIds \cup {"tr_unknown"} : delete_stripe_transfer_by_stripe_id(x)
    /\ UNCHANGED dispute_vars

TransferInit == stripe_disputes = <<>> /\ DisputeIdle /\ PayoutIdle

TransferNext ==
    \/ CreateTransfer
    \/ GetTransferById
    \/ UpdateTransferById
    \/ Respond

TransferSpec == TransferInit /\ [][TransferNext]_vars

StripeTransferNext ==
    \/ CreateStripeTransfer
    \/ GetStripeTransferByStripeId
    \/ GetStripeTransfersByTransferId
    \/ GetStripeTransferById
    \/ UpdateStripeTransferById
    \/ DeleteStripeTransferByStripeId
    \/ Respond

StripeTransferSpec == TransferInit /\ [][StripeTransferNext]_vars

-----------------------------------------------------------------------------
(* Properties of the dispute repository.                                   *)

Range(list) == {list[k] : k \in 1 .. Len(list)}

RowIndexes == 1 .. Len(stripe_disputes)

\* Python `a == b` on str-valued objects: equal text, member object or not.
eq_(a, b) == a.value = b.value

ReadOps ==
    {"get_dispute_by_dispute_id", "list_disputes_by_payer_id",
     "list_disputes_by_payment_method_id", "get_disputes_by_dd_consumer_id",
     "get_disputes_by_dd_stripe_card_id"}

\* C1: get_dispute_by_dispute_id matches the id against the external
\* stripe_dispute_id column when dispute_id_type is None or equal to
\* STRIPE_DISPUTE_ID (member object or not), against the internal id column
\* for every other value, and returns the single matching row or None.
C1_IdTypeSelectsColumn ==
    d_op = "get_dispute_by_dispute_id" =>
        LET t == d_args.dispute_id_type
            asked == d_args.stripe_dispute_id
            external == t = None \/ eq_(t[1], STRIPE_DISPUTE_ID)
            matching ==
                {i \in RowIndexes :
                    IF external
                    THEN stripe_disputes[i].stripe_dispute_id = asked
                    ELSE id_column_equals(stripe_disputes[i].id, asked)}
        IN  IF matching = {}
            THEN d_result = None
            ELSE \E i \in matching : d_result = Some(from_row(stripe_disputes[i]))

\* C2: update_dispute_details changes only evidence_submitted_at and
\* updated_at of the rows whose stripe_dispute_id equals request_where.id;
\* every other field and row, and the number of rows, stay as they were, and
\* when no row matches it returns None and leaves the store unchanged.
C2_UpdateFrame ==
    [][d_op' = "update_dispute_details" =>
          LET w == d_args'.request_where.id
              hit == {i \in RowIndexes : stripe_disputes[i].stripe_dispute_id = w}
          IN  /\ Len(stripe_disputes') = Len(stripe_disputes)
              /\ \A i \in RowIndexes :
                    IF i \in hit
                    THEN \A f \in StripeDisputeDbEntityFields \ {"evidence_submitted_at", "updated_at"} :
                             stripe_disputes'[i][f] = stripe_disputes[i][f]
                    ELSE stripe_disputes'[i] = stripe_disputes[i]
              /\ hit = {} => d_result' = None /\ stripe_disputes' = stripe_disputes
              /\ hit # {} => d_result' # None]_vars

\* An update of one row has returned it while another row keeps the evidence
\* times an earlier update gave it.
C2_Witness ==
    /\ d_op = "update_dispute_details"
    /\ d_result # None
    /\ \E i \in RowIndexes :
          /\ stripe_disputes[i].stripe_dispute_id # d_args.request_where.id
          /\ stripe_disputes[i].evidence_submitted_at # None

\* C3: get_disputes_by_dd_consumer_id returns a dispute iff its card id is in
\* card_ids, its reason is in reasons and its disputed_at is strictly after
\* start_time; an empty card_ids or reasons list gives an empty result.
C3_ConsumerFilter ==
    d_op = "get_disputes_by_dd_consumer_id" =>
        /\ \A i \in RowIndexes :
              (\E k \in 1 .. Len(d_result) : d_result[k] = from_row(stripe_disputes[i]))
              <=> /\ stripe_disputes[i].stripe_card_id \in Range(d_args.card_ids)
                  /\ stripe_disputes[i].reason \in Range(d_args.reasons)
                  /\ d_args.start_time < stripe_disputes[i].disputed_at
        /\ \A k \in 1 .. Len(d_result) :
              \E i \in RowIndexes : d_result[k] = from_row(stripe_disputes[i])
        /\ (d_args.card_ids = <<>> \/ d_args.reasons = <<>>) => d_result = <<>>

\* A dispute disputed exactly at start_time is left out while another one,
\* disputed later, is returned.
C3_Witness ==
    /\ d_op = "get_disputes_by_dd_consumer_id"
    /\ Len(d_result) > 0
    /\ \E i \in RowIndexes :
          /\ stripe_disputes[i].stripe_card_id \in Range(d_args.card_ids)
          /\ stripe_disputes[i].reason \in Range(d_args.reasons)
          /\ stripe_disputes[i].disputed_at = d_args.start_time

\* C4: list_disputes_by_payer_id returns exactly the disputes whose card id is
\* listed, each stored row once even when the list repeats an id, and the
\* empty list gives the empty result.
C4_PayerList ==
    d_op = "list_disputes_by_payer_id" =>
        /\ \A i \in RowIndexes :
              Cardinality({k \in 1 .. Len(d_result) : d_result[k] = from_row(stripe_disputes[i])})
              = IF stripe_disputes[i].stripe_card_id \in Range(d_args.stripe_card_ids)
                THEN 1 ELSE 0
        /\ \A k \in 1 .. Len(d_result) :
              \E i \in RowIndexes : d_result[k] = from_row(stripe_disputes[i])
        /\ d_args.stripe_card_ids = <<>> => d_result = <<>>

\* The list repeats one card id; that card's dispute comes once and the other
\* stored dispute is left out.
C4_Witness ==
    /\ d_op = "list_disputes_by_payer_id"
    /\ Len(d_args.stripe_card_ids) = 2
    /\ d_args.stripe_card_ids[1] = d_args.stripe_card_ids[2]
    /\ Len(d_result) = 1
    /\ Len(stripe_disputes) = 2

\* C9: concurrent update_dispute_details calls are one atomic store step each:
\* a row always carries the (evidence_submitted_at, updated_at) pair of one
\* call that has run (or its initial pair), and the row a call returns is the
\* store's row right after that call's own write.
C9_AtomicUpdate ==
    [][/\ \A c \in Callers :
             (calls[c].pc = "awaiting" /\ calls'[c].pc = "returned") =>
                 LET w == calls[c].request_where.id
                     hit == {i \in 1 .. Len(stripe_disputes') :
                                stripe_disputes'[i].stripe_dispute_id = w}
                 IN  IF hit = {}
                     THEN calls'[c].result = None /\ stripe_disputes' = stripe_disputes
                     ELSE \E i \in hit :
                             /\ calls'[c].result = Some(from_row(stripe_disputes'[i]))
                             /\ stripe_disputes'[i].evidence_submitted_at
                                    = Some(calls[c].request_set.evidence_submitted_at)
                             /\ stripe_disputes'[i].updated_at
                                    = Some(calls[c].request_set.updated_at)
       /\ \A i \in 1 .. Len(stripe_disputes') :
             \/ /\ stripe_disputes'[i].evidence_submitted_at = None
                /\ stripe_disputes'[i].updated_at = None
             \/ \E c \in Callers :
                   /\ calls'[c].pc = "returned"
                   /\ calls'[c].request_where.id = stripe_disputes'[i].stripe_dispute_id
                   /\ stripe_disputes'[i].evidence_submitted_at
                          = Some(calls'[c].request_set.evidence_submitted_at)
                   /\ stripe_disputes'[i].updated_at
                          = Some(calls'[c].request_set.updated_at)]_vars

\* Two calls on the same dispute, with pairs that differ in both times, have
\* both returned a row, and the rows differ.
C9_Witness ==
    \E c1, c2 \in Callers :
        /\ c1 # c2
        /\ calls[c1].pc = "returned" /\ calls[c2].pc = "returned"
        /\ calls[c1].request_where = calls[c2].request_where
        /\ calls[c1].result # None /\ calls[c2].result # None
        /\ calls[c1].request_set.evidence_submitted_at
               # calls[c2].request_set.evidence_submitted_at
        /\ calls[c1].request_set.updated_at # calls[c2].request_set.updated_at
        /\ calls[c1].result # calls[c2].result

\* C10: every read method issues its statement to the replica and leaves the
\* store alone, update_dispute_details issues its statement to the master,
\* only update_dispute_details changes the store, and no step adds or removes
\* a dispute row.
C10_TargetsAndWrites ==
    [][/\ d_op' \in ReadOps => d_target' = "replica" /\ stripe_disputes' = stripe_disputes
       /\ d_op' = "update_dispute_details" => d_target' = "master"
       /\ stripe_disputes' # stripe_disputes =>
              d_op' = "update_dispute_details" /\ d_target' = "master"
       /\ Len(stripe_disputes') = Len(stripe_disputes)
       /\ \A i \in RowIndexes :
              /\ stripe_disputes'[i].id = stripe_disputes[i].id
              /\ stripe_disputes'[i].stripe_dispute_id = stripe_disputes[i].stripe_dispute_id]_vars

\* A read has run on the replica after an update wrote a row.
C10_Witness ==
    /\ d_op \in ReadOps
    /\ d_target = "replica"
    /\ \E i \in RowIndexes : stripe_disputes[i].updated_at # None

-----------------------------------------------------------------------------
(* Properties of the transfer API.                                         *)

StripeRowIndexes == 1 .. Len(stripe_transfers)

\* C5: PATCH /stripe/{id} is presence-based: exactly the fields the body set
\* (a field set to null included) reach the repository update, each with the
\* body's value, and every field the body left unset keeps its stored value.
C5_PresenceBasedUpdate ==
    [][h_op' = "UpdateStripeTransferById" =>
          LET body == h_request'.body
              id == h_request'.stripe_transfer_id
              data == h_repo'.data
          IN  /\ data.fields_set = body.fields_set
              /\ \A f \in body.fields_set : data.values[f] = body.values[f]
              /\ Len(stripe_transfers') = Len(stripe_transfers)
              /\ \A i \in StripeRowIndexes :
                    IF stripe_transfers[i].id = id
                    THEN \A f \in StripeTransferFields :
                             stripe_transfers'[i][f]
                                 = IF f \in body.fields_set
                                   THEN body.values[f]
                                   ELSE stripe_transfers[i][f]
                    ELSE stripe_transfers'[i] = stripe_transfers[i]]_vars

\* A body holding only stripe_status = "paid" was applied to a record that has
\* a processor id, and the response still carries that processor id.
C5_Witness ==
    /\ h_op = "UpdateStripeTransferById"
    /\ h_request.body.fields_set = {"stripe_status"}
    /\ h_request.body.values["stripe_status"] = Some("paid")
    /\ h_response.status_code = 200
    /\ h_response.body.stripe_status = Some("paid")
    /\ h_response.body.stripe_id # None

\* C6: GET /{id} and PATCH /{id} for an id that is not stored end in 404 with
\* error_code "transfer_not_found" and retryable false, the store unchanged;
\* for a stored id neither ends in 404.
C6_TransferNotFound ==
    [][h_op' \in {"GetTransferById", "UpdateTransferById"} =>
          LET id == h_request'.transfer_id
              present == \E i \in 1 .. Len(transfers) : transfers[i].id = id
          IN  IF present
              THEN h_response'.status_code # 404
              ELSE /\ h_response'.status_code = 404
                   /\ h_response'.body.error_code = "transfer_not_found"
                   /\ h_response'.body.retryable = FALSE
                   /\ transfers' = transfers]_vars

\* A PATCH for an id the store does not hold, while it holds other transfers,
\* was answered 404.
C6_Witness ==
    /\ h_op = "UpdateTransferById"
    /\ h_response.status_code = 404
    /\ Len(transfers) > 0
    /\ h_request.data.fields_set # {}

\* C7: DELETE /stripe/_delete-by-stripe-id answers 200 with an Acknowledgement
\* whether or not a record matched; a delete for a stripe_id no record holds
\* leaves the store unchanged, and after a delete no record holds that
\* stripe_id, so the same delete again changes nothing.
C7_DeleteIdempotent ==
    [][h_op' = "DeleteStripeTransferByStripeId" =>
          LET x == h_request'.stripe_id
              hit == {i \in StripeRowIndexes : stripe_transfers[i].stripe_id = Some(x)}
          IN  /\ h_response'.status_code = 200
              /\ h_response'.body = [acknowledged |-> TRUE]
              /\ hit = {} => stripe_transfers' = stripe_transfers
              /\ \A i \in 1 .. Len(stripe_transfers') :
                    stripe_transfers'[i].stripe_id # Some(x)
              /\ Len(stripe_transfers') = Len(stripe_transfers) - Cardinality(hit)
              /\ delete_by_stripe_id(stripe_transfers', x) = stripe_transfers']_vars

\* A delete for a stripe_id that no record holds was acknowledged while the
\* store holds a record with another stripe_id.
C7_Witness ==
    /\ h_op = "DeleteStripeTransferByStripeId"
    /\ h_request.stripe_id = "tr_unknown"
    /\ h_response.status_code = 200
    /\ \E i \in StripeRowIndexes : stripe_transfers[i].stripe_id # None

\* C8: GET /stripe/_get-by-stripe-id answers 200 with a null body when no
\* record matches, GET /stripe/{id} answers 404 "stripe_transfer_not_found";
\* when a record matches, each answers 200 with every field of that record.
C8_AbsenceByLookup ==
    /\ h_op = "GetStripeTransferByStripeId" =>
          LET hit == {i \in StripeRowIndexes :
                         stripe_transfers[i].stripe_id = Some(h_request.stripe_id)}
          IN  /\ h_response.status_code = 200
              /\ IF hit = {}
                 THEN h_response.body = None
                 ELSE /\ h_response.body # None
                      /\ \E i \in hit : \A f \in StripeTransferFields :
                            h_response.body[1][f] = stripe_transfers[i][f]
    /\ h_op = "GetStripeTransferById" =>
          LET hit == {i \in StripeRowIndexes :
                         stripe_transfers[i].id = h_request.stripe_transfer_id}
          IN  IF hit = {}
              THEN /\ h_response.status_code = 404
                   /\ h_response.body.error_code = "stripe_transfer_not_found"
              ELSE /\ h_response.status_code = 200
                   /\ \E i \in hit : \A f \in StripeTransferFields :
                         h_response.body[f] = stripe_transfers[i][f]

\* The lookup by stripe_id found nothing in a store that holds records, and
\* answered 200 with a null body.
C8_Witness ==
    /\ h_op = "GetStripeTransferByStripeId"
    /\ h_response.status_code = 200
    /\ h_response.body = None
    /\ Len(stripe_transfers) > 0

=============================================================================
